---- MODULE Spec2Model ----
(***************************************************************************)
(* email2html: conversion of one raw e-mail message into an Email record   *)
(* (decoded headers, optional HTML body, optional text body, attachments). *)
(* The model follows main.go: handleMessage, handleMultipart, addContent,  *)
(* getFilename, decodeRFC2047Word and the hand-over to writeResult.        *)
(*                                                                         *)
(* A Go string or []byte is a sequence of bytes (0..255).  A literal is    *)
(* written B(<<"a", "b">>), the bytes of the characters.                   *)
(***************************************************************************)
EXTENDS Naturals, Sequences, FiniteSets, TLC

\* ------------------------------------------------------------------ bytes

\* The printable ASCII characters, code 32 (space) to 95 (_) and 97 (a) to 126 (~).
AsciiLow ==
  <<" ", "!", "\"", "#", "$", "%", "&", "'", "(", ")", "*", "+", ",", "-", ".", "/",
    "0", "1", "2", "3", "4", "5", "6", "7", "8", "9", ":", ";", "<", "=", ">", "?",
    "@", "A", "B", "C", "D", "E", "F", "G", "H", "I", "J", "K", "L", "M", "N", "O",
    "P", "Q", "R", "S", "T", "U", "V", "W", "X", "Y", "Z", "[", "\\", "]", "^", "_">>

AsciiHigh ==
  <<"a", "b", "c", "d", "e", "f", "g", "h", "i", "j", "k", "l", "m", "n", "o",
    "p", "q", "r", "s", "t", "u", "v", "w", "x", "y", "z", "{", "|", "}", "~">>

\* The byte of a character.
Ord(c) ==
  CASE c = "\n" -> 10
    [] c = "\r" -> 13
    [] c = "\t" -> 9
    [] \E i \in 1..Len(AsciiLow) : AsciiLow[i] = c ->
         31 + (CHOOSE i \in 1..Len(AsciiLow) : AsciiLow[i] = c)
    [] OTHER -> 96 + (CHOOSE i \in 1..Len(AsciiHigh) : AsciiHigh[i] = c)

\* The bytes of a sequence of characters.
B(cs) == [i \in 1..Len(cs) |-> Ord(cs[i])]

LF == Ord("\n")
CR == Ord("\r")
TAB == Ord("\t")
SP == Ord(" ")
QUOTE == Ord("\"")
SEMI == Ord(";")
EQ == Ord("=")
SLASH == Ord("/")
PLUS == Ord("+")
TILDE == Ord("~")
UpperA == Ord("A")
UpperF == Ord("F")
UpperZ == Ord("Z")
LowerA == Ord("a")
LowerF == Ord("f")
LowerZ == Ord("z")
Digit0 == Ord("0")
Digit9 == Ord("9")

\* The string constants of the program and of the charsets mime knows.
QuotedPrintable == B(<<"q", "u", "o", "t", "e", "d", "-", "p", "r", "i", "n", "t", "a", "b", "l", "e">>)
Base64 == B(<<"b", "a", "s", "e", "6", "4">>)
AttachmentTxt == B(<<"a", "t", "t", "a", "c", "h", "m", "e", "n", "t", ".", "t", "x", "t">>)
AttachmentHtml == B(<<"a", "t", "t", "a", "c", "h", "m", "e", "n", "t", ".", "h", "t", "m", "l">>)
Br == B(<<"<", "b", "r", ">", "\n">>)
EmailContentHtml == B(<<"e", "m", "a", "i", "l", "-", "c", "o", "n", "t", "e", "n", "t", ".", "h", "t", "m", "l">>)
TextPlain == B(<<"t", "e", "x", "t", "/", "p", "l", "a", "i", "n">>)
TextHtml == B(<<"t", "e", "x", "t", "/", "h", "t", "m", "l">>)
MultipartSlash == B(<<"m", "u", "l", "t", "i", "p", "a", "r", "t", "/">>)
Utf8 == B(<<"u", "t", "f", "-", "8">>)
Iso88591 == B(<<"i", "s", "o", "-", "8", "8", "5", "9", "-", "1">>)
UsAsciiName == B(<<"u", "s", "-", "a", "s", "c", "i", "i">>)

\* ------------------------------------------------------- package strings

\* strings.HasPrefix
HasPrefix(s, p) == Len(s) >= Len(p) /\ SubSeq(s, 1, Len(p)) = p

\* strings.HasSuffix
HasSuffix(s, p) == Len(s) >= Len(p) /\ SubSeq(s, Len(s) - Len(p) + 1, Len(s)) = p

\* The first index of byte c in s, 0 when there is none (strings.IndexByte + 1).
IndexByte(s, c) ==
  IF \E i \in 1..Len(s) : s[i] = c
  THEN CHOOSE i \in 1..Len(s) : s[i] = c /\ \A j \in 1..(i - 1) : s[j] # c
  ELSE 0

\* strings.Split(s, sep) for a one-byte separator: always at least one segment.
RECURSIVE Split(_, _)
Split(s, c) ==
  LET i == IndexByte(s, c)
  IN IF i = 0 THEN <<s>>
     ELSE <<SubSeq(s, 1, i - 1)>> \o Split(SubSeq(s, i + 1, Len(s)), c)

\* strings.TrimLeft / TrimRight / Trim for a cutset given as a set of bytes.
RECURSIVE TrimLeft(_, _)
TrimLeft(s, cut) ==
  IF s # <<>> /\ Head(s) \in cut THEN TrimLeft(Tail(s), cut) ELSE s

RECURSIVE TrimRight(_, _)
TrimRight(s, cut) ==
  IF s # <<>> /\ s[Len(s)] \in cut THEN TrimRight(SubSeq(s, 1, Len(s) - 1), cut) ELSE s

Trim(s, cut) == TrimRight(TrimLeft(s, cut), cut)

\* strings.TrimSpace (ASCII white space).
TrimSpace(s) == Trim(s, {SP, TAB, LF, CR})

\* strings.ToLower on ASCII.
LowerByte(b) ==
  IF b >= UpperA /\ b <= UpperZ THEN b + (LowerA - UpperA) ELSE b
ToLower(s) == [i \in 1..Len(s) |-> LowerByte(s[i])]

\* strings.Replace(s, old, new, -1) for a one-byte old.
RECURSIVE ReplaceByte(_, _, _)
ReplaceByte(s, old, new) ==
  IF s = <<>> THEN <<>>
  ELSE (IF Head(s) = old THEN new ELSE <<Head(s)>>) \o ReplaceByte(Tail(s), old, new)

\* ------------------------------------------------------ encoding/base64

\* The 6-bit value of a byte of the standard alphabet, 64 for any other byte.
Sextet(b) ==
  CASE b >= UpperA /\ b <= UpperZ -> b - UpperA
    [] b >= LowerA /\ b <= LowerZ -> b - LowerA + 26
    [] b >= Digit0 /\ b <= Digit9 -> b - Digit0 + 52
    [] b = PLUS -> 62
    [] b = SLASH -> 63
    [] OTHER -> 64

\* One quantum of four bytes; the last quantum may end in "=" or "==".
Quantum(q, last) ==
  LET v1 == Sextet(q[1])
      v2 == Sextet(q[2])
      v3 == Sextet(q[3])
      v4 == Sextet(q[4])
  IN IF v1 = 64 \/ v2 = 64 THEN [err |-> TRUE, data |-> <<>>]
     ELSE IF last /\ q[3] = EQ /\ q[4] = EQ
       THEN [err |-> FALSE, data |-> <<(v1 * 64 + v2) \div 16>>]
     ELSE IF v3 = 64 THEN [err |-> TRUE, data |-> <<>>]
     ELSE IF last /\ q[4] = EQ
       THEN LET n == v1 * 4096 + v2 * 64 + v3
            IN [err |-> FALSE, data |-> <<n \div 1024, (n \div 4) % 256>>]
     ELSE IF v4 = 64 THEN [err |-> TRUE, data |-> <<>>]
     ELSE LET n == v1 * 262144 + v2 * 4096 + v3 * 64 + v4
          IN [err |-> FALSE, data |-> <<n \div 65536, (n \div 256) % 256, n % 256>>]

RECURSIVE Quanta(_)
Quanta(t) ==
  IF t = <<>> THEN [err |-> FALSE, data |-> <<>>]
  ELSE LET q == Quantum(SubSeq(t, 1, 4), Len(t) = 4)
           r == Quanta(SubSeq(t, 5, Len(t)))
       IN IF q.err \/ r.err THEN [err |-> TRUE, data |-> <<>>]
          ELSE [err |-> FALSE, data |-> q.data \o r.data]

\* base64.StdEncoding.DecodeString: line breaks are skipped, padding is required.
Base64Decode(s) ==
  LET IsData(b) == b # CR /\ b # LF
      t == SelectSeq(s, IsData)
  IN IF Len(t) % 4 # 0 THEN [err |-> TRUE, data |-> <<>>] ELSE Quanta(t)

\* ------------------------------------------------- mime/quotedprintable

IsHex(b) ==
  \/ b >= Digit0 /\ b <= Digit9
  \/ b >= UpperA /\ b <= UpperF
  \/ b >= LowerA /\ b <= LowerF

HexVal(b) ==
  CASE b >= Digit0 /\ b <= Digit9 -> b - Digit0
    [] b >= UpperA /\ b <= UpperF -> b - UpperA + 10
    [] OTHER -> b - LowerA + 10

\* The bytes of one line after its end has been settled (Reader.Read's switch).
RECURSIVE QPBytes(_)
QPBytes(line) ==
  IF line = <<>> THEN [err |-> FALSE, data |-> <<>>]
  ELSE LET b == Head(line)
           hex == Len(line) >= 3 /\ IsHex(line[2]) /\ IsHex(line[3])
           literal == Len(line) >= 2 /\ line[2] # CR /\ line[2] # LF
           use == IF b = EQ /\ hex THEN 3 ELSE 1
           out == IF b = EQ /\ hex THEN HexVal(line[2]) * 16 + HexVal(line[3]) ELSE b
           bad == \/ b = EQ /\ ~hex /\ ~literal
                  \/ b # EQ /\ b \notin {TAB, CR, LF} /\ b < 128 /\ (b < SP \/ b > TILDE)
           r == QPBytes(SubSeq(line, use + 1, Len(line)))
       IN IF bad \/ r.err THEN [err |-> TRUE, data |-> <<>>]
          ELSE [err |-> FALSE, data |-> <<out>> \o r.data]

\* One line as ReadSlice('\n') returns it; atEOF when it is the unterminated last one.
QPLine(whole, atEOF) ==
  LET stripped == TrimRight(whole, {SP, TAB, CR, LF})
      soft == HasSuffix(stripped, <<EQ>>)
      rest == SubSeq(whole, Len(stripped) + 1, Len(whole))
      line == IF soft THEN SubSeq(stripped, 1, Len(stripped) - 1)
              ELSE IF HasSuffix(whole, <<CR, LF>>) THEN stripped \o <<CR, LF>>
              ELSE IF HasSuffix(whole, <<LF>>) THEN stripped \o <<LF>>
              ELSE stripped
      after == /\ soft
               /\ ~HasPrefix(rest, <<LF>>)
               /\ ~HasPrefix(rest, <<CR, LF>>)
               /\ ~(rest = <<>> /\ Len(line) > 0 /\ atEOF)
      r == QPBytes(line)
  IN IF r.err \/ after THEN [err |-> TRUE, data |-> <<>>] ELSE r

\* ioutil.ReadAll(quotedprintable.NewReader(r)): the decoded bytes, or the error.
RECURSIVE QPDecode(_)
QPDecode(s) ==
  IF s = <<>> THEN [err |-> FALSE, data |-> <<>>]
  ELSE LET i == IndexByte(s, LF)
           n == IF i = 0 THEN Len(s) ELSE i
           l == QPLine(SubSeq(s, 1, n), i = 0)
           r == QPDecode(SubSeq(s, n + 1, Len(s)))
       IN IF l.err \/ r.err THEN [err |-> TRUE, data |-> <<>>]
          ELSE [err |-> FALSE, data |-> l.data \o r.data]

\* ----------------------------------------------------------------- mime

\* mime's token characters: printable ASCII without the tspecials.
TSpecials ==
  { Ord("("), Ord(")"), Ord("<"), Ord(">"), Ord("@"), Ord(","), Ord(";"), Ord(":"),
    Ord("\\"), Ord("\""), Ord("/"), Ord("["), Ord("]"), Ord("?"), Ord("=") }

IsTokenByte(b) ==
  /\ b > SP
  /\ b < 127
  /\ b \notin TSpecials

IsToken(s) == s # <<>> /\ \A i \in 1..Len(s) : IsTokenByte(s[i])

\* One parameter of a media type: token "=" value, the value a token or a quoted string.
ParamOk(p) ==
  LET q == TrimSpace(p)
      i == IndexByte(q, EQ)
      v == SubSeq(q, i + 1, Len(q))
  IN /\ i > 1
     /\ IsToken(SubSeq(q, 1, i - 1))
     /\ \/ IsToken(v)
        \/ Len(v) >= 2 /\ v[1] = QUOTE /\ v[Len(v)] = QUOTE

\* mime.ParseMediaType: the lower-cased type before the first ";", or an error.
\* The parameters are validated; the boundary they carry delimits the parts that
\* NextPart returns below.
ParseMediaType(v) ==
  LET segs == Split(v, SEMI)
      mediatype == TrimSpace(ToLower(segs[1]))
      i == IndexByte(mediatype, SLASH)
      okType == IF i = 0 THEN IsToken(mediatype)
                ELSE /\ IsToken(SubSeq(mediatype, 1, i - 1))
                     /\ IsToken(SubSeq(mediatype, i + 1, Len(mediatype)))
      okParams == \A k \in 2..Len(segs) :
                    \/ ParamOk(segs[k])
                    \/ k = Len(segs) /\ TrimSpace(segs[k]) = <<>>
  IN IF okType /\ okParams THEN [err |-> FALSE, mediaType |-> mediatype]
     ELSE [err |-> TRUE, mediaType |-> <<>>]

\* ---------------------------------------------------------------- errors

\* A Go error value: nil, or the kind of failure with the text it carries.
Nil == [kind |-> "nil", arg |-> <<>>]
Error(k, a) == [kind |-> k, arg |-> a]

\* ----------------------------------------------- RFC 2047 header decoding

\* A header value is a sequence of tokens.  A "text" token is literal text (plain
\* words, or the remains of an encoded-word with malformed syntax); a "word" token
\* is a syntactically complete encoded-word =?charset?enc?payload?= whose payload
\* either decodes to content (valid) or does not.
Text(raw) ==
  [kind |-> "text", raw |-> raw, charset |-> <<>>, valid |-> FALSE, content |-> <<>>]
Word(raw, charset, valid, content) ==
  [kind |-> "word", raw |-> raw, charset |-> charset, valid |-> valid, content |-> content]

\* The header value as it stands in the message.
RECURSIVE Raw(_)
Raw(v) == IF v = <<>> THEN <<>> ELSE Head(v).raw \o Raw(Tail(v))

\* rfc2047Decoder.CharsetReader: every charset handed to it is refused.
CharsetReader(charset) == Error("charset", charset)

\* ISO-8859-1 and US-ASCII content as UTF-8 (WordDecoder.convert).
RECURSIVE Latin1(_)
Latin1(c) ==
  IF c = <<>> THEN <<>>
  ELSE (IF Head(c) < 128 THEN <<Head(c)>>
        ELSE <<192 + (Head(c) \div 64), 128 + (Head(c) % 64)>>) \o Latin1(Tail(c))

RECURSIVE UsAscii(_)
UsAscii(c) ==
  IF c = <<>> THEN <<>>
  ELSE (IF Head(c) < 128 THEN <<Head(c)>> ELSE <<239, 191, 189>>) \o UsAscii(Tail(c))

\* WordDecoder.convert: the three built-in charsets, else the CharsetReader.
Convert(charset, content) ==
  LET cs == ToLower(charset)
  IN CASE cs = Utf8 -> [err |-> Nil, text |-> content]
       [] cs = Iso88591 -> [err |-> Nil, text |-> Latin1(content)]
       [] cs = UsAsciiName -> [err |-> Nil, text |-> UsAscii(content)]
       [] OTHER -> [err |-> CharsetReader(cs), text |-> <<>>]

\* WordDecoder.DecodeHeader: text and undecodable words are copied, a decodable
\* word is converted, and the first conversion error ends the decoding.
RECURSIVE DecodeHeader(_)
DecodeHeader(v) ==
  IF v = <<>> THEN [err |-> Nil, text |-> <<>>]
  ELSE LET w == Head(v)
           c == IF w.kind = "word" /\ w.valid THEN Convert(w.charset, w.content)
                ELSE [err |-> Nil, text |-> w.raw]
           r == DecodeHeader(Tail(v))
       IN IF c.err # Nil THEN [err |-> c.err, text |-> <<>>]
          ELSE IF r.err # Nil THEN r
          ELSE [err |-> Nil, text |-> c.text \o r.text]

\* Mutant: the charset error is swallowed like any other decoding error.
decodeSwallows(s) ==
  LET d == DecodeHeader(s)
  IN IF d.err = Nil THEN [text |-> d.text, err |-> Nil] ELSE [text |-> Raw(s), err |-> Nil]

decodeRFC2047Word(s) ==
  LET d == DecodeHeader(s)
  IN IF d.err = Nil THEN [text |-> d.text, err |-> Nil]
     ELSE IF d.err.kind = "charset" THEN [text |-> Raw(s), err |-> d.err]
     ELSE [text |-> Raw(s), err |-> Nil]

\* ------------------------------------------------------------ getFilename

\* Mutant: the value after the last "=" of the segment is taken.
getFilenameLast(contentDisposition) ==
  LET params == Split(contentDisposition, SEMI)
  IN IF Len(params) < 2 THEN <<>>
     ELSE LET filename == Split(params[2], EQ)
          IN IF Len(filename) < 2 THEN <<>>
             ELSE Trim(filename[Len(filename)], {QUOTE})

getFilename(contentDisposition) ==
  LET params == Split(contentDisposition, SEMI)
  IN IF Len(params) < 2 THEN <<>>
     ELSE LET filename == Split(params[2], EQ)
          IN IF Len(filename) < 2 THEN <<>>
             ELSE Trim(filename[2], {QUOTE})

\* ------------------------------------------------------------- addContent

isPlainText(contentType) == HasPrefix(contentType, TextPlain)

isHtml(contentType) == HasPrefix(contentType, TextHtml)

isMultipart(contentType) == HasPrefix(contentType, MultipartSlash)

Attachment(data, filename) == [Data |-> data, Filename |-> filename]

\* An io.Reader, by what ioutil.ReadAll gets from it.
Reader(data) == [err |-> FALSE, data |-> data]

\* quotedprintable.NewReader(r)
QPReader(r) == IF r.err THEN r ELSE QPDecode(r.data)

\* What addContent leaves behind: the record, the error it returns, and whether
\* the part was a multipart container, whose parts handleMultipart then reads.
Result(email, err, enter) == [email |-> email, err |-> err, enter |-> enter]

\* Mutant: the new attachment is put in front of the list.
appendFront(email, mediaType, decoded, filename) ==
  IF decoded.err THEN Result(email, Error("base64", <<>>), FALSE)
  ELSE IF filename # <<>>
    THEN Result([email EXCEPT !.Attachments = <<Attachment(decoded.data, filename)>> \o @],
                Nil, FALSE)
  ELSE IF isPlainText(mediaType)
    THEN Result([email EXCEPT !.Attachments =
                   <<Attachment(decoded.data, AttachmentTxt)>> \o @], Nil, FALSE)
  ELSE IF isHtml(mediaType)
    THEN Result([email EXCEPT !.Attachments =
                   <<Attachment(decoded.data, AttachmentHtml)>> \o @], Nil, FALSE)
  ELSE Result(email, Error("filename", mediaType), FALSE)

\* Mutant: a part of unknown type without a filename is stored under a made-up name.
appendInvents(email, mediaType, decoded, filename) ==
  IF decoded.err THEN Result(email, Error("base64", <<>>), FALSE)
  ELSE IF filename # <<>>
    THEN Result([email EXCEPT !.Attachments = Append(@, Attachment(decoded.data, filename))],
                Nil, FALSE)
  ELSE IF isHtml(mediaType)
    THEN Result([email EXCEPT !.Attachments =
                   Append(@, Attachment(decoded.data, AttachmentHtml))], Nil, FALSE)
  ELSE Result([email EXCEPT !.Attachments =
                 Append(@, Attachment(decoded.data, AttachmentTxt))], Nil, FALSE)

\* The end of the attachment branch: after the transfer decoding, the filename is
\* settled and the attachment appended.
append(email, mediaType, decoded, filename) ==
  IF decoded.err THEN Result(email, Error("base64", <<>>), FALSE)
  ELSE IF filename # <<>>
    THEN Result([email EXCEPT !.Attachments = Append(@, Attachment(decoded.data, filename))],
                Nil, FALSE)
  ELSE IF isPlainText(mediaType)
    THEN Result([email EXCEPT !.Attachments =
                   Append(@, Attachment(decoded.data, AttachmentTxt))], Nil, FALSE)
  ELSE IF isHtml(mediaType)
    THEN Result([email EXCEPT !.Attachments =
                   Append(@, Attachment(decoded.data, AttachmentHtml))], Nil, FALSE)
  ELSE Result(email, Error("filename", mediaType), FALSE)

\* Mutant: the body is stored as it was read, base64 or not.
attachRaw(email, header, mediaType, data) ==
  append(email, mediaType, Reader(data), getFilename(header.cd))

\* The attachment branch: base64 is decoded when the part declares exactly
\* "base64", and the filename is taken from Content-Disposition.
attach(email, header, mediaType, data) ==
  append(email, mediaType,
         IF header.cte = Base64 THEN Base64Decode(data) ELSE Reader(data),
         getFilename(header.cd))

\* Mutant: a text or HTML part that finds its slot taken is dropped.
dispatchDrops(email, header, body, mt) ==
  IF body.err THEN Result(email, Error("quotedprintable", <<>>), FALSE)
  ELSE IF mt.err THEN Result(email, Error("mime", header.ct), FALSE)
  ELSE IF isPlainText(mt.mediaType)
    THEN (IF email.Text = <<>>
          THEN Result([email EXCEPT !.Text = ReplaceByte(body.data, LF, Br)], Nil, FALSE)
          ELSE Result(email, Nil, FALSE))
  ELSE IF isHtml(mt.mediaType)
    THEN (IF email.Html = <<>>
          THEN Result([email EXCEPT !.Html = <<Attachment(body.data, EmailContentHtml)>>],
                      Nil, FALSE)
          ELSE Result(email, Nil, FALSE))
  ELSE IF isMultipart(mt.mediaType) THEN Result(email, Nil, TRUE)
  ELSE attach(email, header, mt.mediaType, body.data)

\* Mutant: every text/plain part replaces the text.
dispatchOverwrites(email, header, body, mt) ==
  IF body.err THEN Result(email, Error("quotedprintable", <<>>), FALSE)
  ELSE IF mt.err THEN Result(email, Error("mime", header.ct), FALSE)
  ELSE IF isPlainText(mt.mediaType)
    THEN Result([email EXCEPT !.Text = ReplaceByte(body.data, LF, Br)], Nil, FALSE)
  ELSE IF isHtml(mt.mediaType) /\ email.Html = <<>>
    THEN Result([email EXCEPT !.Html = <<Attachment(body.data, EmailContentHtml)>>],
                Nil, FALSE)
  ELSE IF isMultipart(mt.mediaType) THEN Result(email, Nil, TRUE)
  ELSE attach(email, header, mt.mediaType, body.data)

\* The chain of branches on the media type, once the body is read and the
\* Content-Type parsed.
dispatch(email, header, body, mt) ==
  IF body.err THEN Result(email, Error("quotedprintable", <<>>), FALSE)
  ELSE IF mt.err THEN Result(email, Error("mime", header.ct), FALSE)
  ELSE IF isPlainText(mt.mediaType) /\ email.Text = <<>>
    THEN Result([email EXCEPT !.Text = ReplaceByte(body.data, LF, Br)], Nil, FALSE)
  ELSE IF isHtml(mt.mediaType) /\ email.Html = <<>>
    THEN Result([email EXCEPT !.Html = <<Attachment(body.data, EmailContentHtml)>>],
                Nil, FALSE)
  ELSE IF isMultipart(mt.mediaType) THEN Result(email, Nil, TRUE)
  ELSE attach(email, header, mt.mediaType, body.data)

\* addContent for one part.  header.Get of an absent field is the empty string.
addContent(email, header, r) ==
  dispatch(email, header,
           IF header.cte = QuotedPrintable THEN QPReader(r) ELSE r,
           ParseMediaType(header.ct))

\* ----------------------------------------------------------------- input

\* Bounds of the input space.
MaxParts == 4
MaxDepth == 2
MaxFreeAt == 2
MaxLen == 5
MaxReceived == 1

\* A MIME entity as it stands in the input: its Content-Type,
\* Content-Transfer-Encoding and Content-Disposition header values (empty when
\* the field is absent) and its body.  The body of a multipart entity is the
\* sequence of parts the multipart reader delivers from it.
Part(ct, cte, cd, body) == [ct |-> ct, cte |-> cte, cd |-> cd, body |-> body]

CtPlain == TextPlain
CtHtml == B(<<"T", "e", "x", "t", "/", "H", "T", "M", "L">>)
CtPdf == B(<<"a", "p", "p", "l", "i", "c", "a", "t", "i", "o", "n", "/", "p", "d", "f">>)
CtMixed == B(<<"m", "u", "l", "t", "i", "p", "a", "r", "t", "/", "m", "i", "x", "e", "d", ";", " ", "b", "o", "u", "n", "d", "a", "r", "y", "=", "b">>)

CdNamed == B(<<"a", "t", "t", "a", "c", "h", "m", "e", "n", "t", ";", " ", "f", "i", "l", "e", "n", "a", "m", "e", "=", "\"", "x", ".", "p", "d", "f", "\"">>)
CdReport == B(<<"a", "t", "t", "a", "c", "h", "m", "e", "n", "t", ";", " ", "f", "i", "l", "e", "n", "a", "m", "e", "=", "\"", "r", "e", "p", "o", "r", "t", ".", "p", "d", "f", "\"">>)
CdSized == B(<<"a", "t", "t", "a", "c", "h", "m", "e", "n", "t", ";", " ", "s", "i", "z", "e", "=", "1", "0", ";", " ", "f", "i", "l", "e", "n", "a", "m", "e", "=", "\"", "x", ".", "p", "d", "f", "\"">>)

ReportPdf == B(<<"r", "e", "p", "o", "r", "t", ".", "p", "d", "f">>)

WordStart == B(<<"=", "?">>)

UpperBase64 == B(<<"B", "A", "S", "E", "6", "4">>)
MixedQuotedPrintable == B(<<"Q", "u", "o", "t", "e", "d", "-", "P", "r", "i", "n", "t", "a", "b", "l", "e">>)

BodyLines == B(<<"a", "\n", "b">>)
BodyBase64 == B(<<"Y", "Q", "=", "=">>)
BodyEscaped == B(<<"p", "=", "3", "D", "\n">>)

Container == Part(CtMixed, <<>>, <<>>, <<>>)

\* The parts a message of up to MaxParts parts is built from.
BasicParts ==
  { Part(CtPlain, <<>>, <<>>, BodyLines),
    Part(CtPlain, <<>>, <<>>, BodyBase64),
    Part(CtPlain, <<>>, <<>>, <<>>),
    Part(CtHtml, <<>>, <<>>, BodyEscaped),
    Part(CtPdf, <<>>, CdNamed, BodyLines),
    Part(CtPdf, Base64, CdReport, BodyBase64) }

\* Every combination of header values and bodies; such a part is the single
\* entity of a message, or one of its first MaxFreeAt parts and then the last.
FreeParts ==
  { Part(ct, cte, cd, body) :
      ct \in {CtPlain, CtHtml, CtPdf, <<>>},
      cte \in {<<>>, Base64, UpperBase64, QuotedPrintable, MixedQuotedPrintable},
      cd \in {<<>>, CdNamed, CdSized},
      body \in {<<>>, BodyLines, BodyBase64, BodyEscaped} }

\* Every Content-Disposition value of up to n bytes over the bytes that
\* getFilename looks at.
RECURSIVE Dispositions(_)
Dispositions(n) ==
  IF n = 0 THEN {<<>>}
  ELSE LET shorter == Dispositions(n - 1)
       IN shorter \cup { Append(s, c) : s \in shorter, c \in {LowerA, SEMI, EQ, QUOTE} }

\* A single-entity message that carries any such Content-Disposition.
DispositionParts ==
  { Part(CtPdf, <<>>, cd, BodyLines) : cd \in Dispositions(MaxLen) \cup {CdReport} }

HvPlain == <<Text(B(<<"B", "o", "b">>))>>
HvCafe == <<Word(B(<<"=", "?", "U", "T", "F", "-", "8", "?", "Q", "?", "C", "a", "f", "=", "C", "3", "=", "A", "9", "?", "=">>), B(<<"U", "T", "F", "-", "8">>), TRUE, B(<<"C", "a", "f">>) \o <<195, 169>>)>>
HvBroken == <<Text(B(<<"=", "?", "U", "T", "F", "-", "8", "?", "Q", "?", "b", "r", "o", "k", "e", "n">>))>>
HvUnknown == <<Word(B(<<"=", "?", "K", "O", "I", "8", "-", "R", "?", "Q", "?", "x", "?", "=">>), B(<<"K", "O", "I", "8", "-", "R">>), TRUE, B(<<"x">>))>>
HvUndecodable == <<Word(B(<<"=", "?", "K", "O", "I", "8", "-", "R", "?", "B", "?", "!", "?", "=">>), B(<<"K", "O", "I", "8", "-", "R">>), FALSE, <<>>)>>
HvDate == <<Text(B(<<"1", " ", "J", "a", "n", " ", "2", "0", "1", "6">>))>>
HvLatin == <<Word(B(<<"=", "?", "I", "S", "O", "-", "8", "8", "5", "9", "-", "1", "?", "Q", "?", "=", "E", "9", "?", "=">>), B(<<"I", "S", "O", "-", "8", "8", "5", "9", "-", "1">>), TRUE, <<233>>)>>
HvMixed == HvCafe \o HvUnknown
HvPartly == HvCafe \o HvBroken

HeaderValues == {HvPlain, HvCafe, HvLatin, HvBroken, HvUnknown, HvUndecodable, HvMixed, HvPartly}

RECURSIVE SeqsUpTo(_, _)
SeqsUpTo(S, n) ==
  IF n = 0 THEN {<<>>}
  ELSE LET shorter == SeqsUpTo(S, n - 1)
       IN shorter \cup { Append(s, x) : s \in shorter, x \in S }

\* mail.Header: each field name with its values in order.
Header(from, to, subject, received) ==
  [From |-> <<from>>, To |-> <<to>>, Subject |-> <<subject>>,
   Date |-> <<HvDate>>, Received |-> received]

PlainHeader == Header(HvPlain, HvPlain, HvPlain, <<>>)

\* The header blocks: any From, To and Subject, or any Received values.
Headers ==
  { Header(f, t, s, <<>>) : f \in HeaderValues, t \in HeaderValues, s \in HeaderValues }
  \cup { Header(HvPlain, HvCafe, HvBroken, r) : r \in SeqsUpTo(HeaderValues, MaxReceived) }

\* The raw messages: any entity under plain headers, or any headers (and possibly
\* a header block that does not parse) over a plain text entity.
Messages ==
  { [ok |-> TRUE, Header |-> PlainHeader, top |-> p] :
      p \in {Container} \cup FreeParts \cup DispositionParts }
  \cup
  { [ok |-> ok, Header |-> h, top |-> Part(CtPlain, <<>>, <<>>, BodyLines)] :
      ok \in BOOLEAN, h \in Headers }

\* ----------------------------------------------------------------- state

VARIABLES
  msg,      \* the raw message read from the reader
  left,     \* how many more parts the input can deliver
  pc,       \* where handleMessage stands
  email,    \* the Email record under construction
  depth,    \* the number of handleMultipart calls on the stack
  err,      \* the error handleMessage returns
  walked,   \* the entities addContent has been called on, in call order
  out       \* what writeResult has been given and has written

vars == <<msg, left, pc, email, depth, err, walked, out>>

\* Header.Get: the first value of the field, the empty string when absent.
Get(header, key) == IF header[key] = <<>> THEN <<>> ELSE header[key][1]

\* The zero Email.
Email ==
  [Date |-> <<>>, From |-> <<>>, To |-> <<>>, Subject |-> <<>>,
   Headers |-> [k \in {} |-> <<>>], Html |-> <<>>, Text |-> <<>>, Attachments |-> <<>>]

Init ==
  /\ msg \in Messages
  /\ left = MaxParts
  /\ pc = "start"
  /\ email = Email
  /\ depth = 0
  /\ err = Nil
  /\ walked = <<>>
  /\ out = <<>>

\* The first error in a sequence of decoding results, nil when there is none.
RECURSIVE FirstError(_)
FirstError(rs) ==
  IF rs = <<>> THEN Nil
  ELSE IF Head(rs).err # Nil THEN Head(rs).err
  ELSE FirstError(Tail(rs))

\* handleMessage up to the Email literal: read the message, parse its
\* Content-Type, decode From, To, Subject and then every header value.
ParseMessage ==
  /\ pc = "start"
  /\ LET mt == ParseMediaType(msg.top.ct)
         from == decodeRFC2047Word(Get(msg.Header, "From"))
         to == decodeRFC2047Word(Get(msg.Header, "To"))
         subject == decodeRFC2047Word(Get(msg.Header, "Subject"))
         decoded == [k \in DOMAIN msg.Header |->
                       [i \in 1..Len(msg.Header[k]) |-> decodeRFC2047Word(msg.Header[k][i])]]
         headers == [k \in DOMAIN msg.Header |->
                       [i \in 1..Len(msg.Header[k]) |-> decoded[k][i].text]]
         e == IF ~msg.ok THEN Error("mail", <<>>)
              ELSE IF mt.err THEN Error("mime", msg.top.ct)
              ELSE FirstError(<<from, to, subject>> \o decoded.From \o decoded.To
                              \o decoded.Subject \o decoded.Date \o decoded.Received)
     IN IF e # Nil
          THEN /\ pc' = "failed"
               /\ err' = e
               /\ email' = email
          ELSE /\ pc' = "decoded"
               /\ err' = Nil
               /\ email' = [email EXCEPT !.Date = Raw(Get(msg.Header, "Date")),
                                         !.From = from.text,
                                         !.To = to.text,
                                         !.Subject = subject.text,
                                         !.Headers = headers]
  /\ UNCHANGED <<msg, left, depth, walked, out>>

\* handleMessage, multipart message: handleMultipart is called on the body.
StartMultipart ==
  /\ pc = "decoded"
  /\ isMultipart(ParseMediaType(msg.top.ct).mediaType)
  /\ pc' = "walk"
  /\ depth' = 1
  /\ UNCHANGED <<msg, left, email, err, walked, out>>

\* Mutant: a failing part is skipped and the walk goes on.
ReturnedSkips(r, then) ==
  /\ email' = r.email
  /\ err' = r.err
  /\ pc' = then
  /\ depth' = IF r.enter THEN depth + 1 ELSE depth

\* What a call of addContent does to the state: the record is updated, an error
\* is returned at once up to handleMessage, and a multipart part has opened one
\* more handleMultipart.
Returned(r, then) ==
  /\ email' = r.email
  /\ err' = r.err
  /\ pc' = IF r.err = Nil THEN then ELSE "failed"
  /\ depth' = IF r.enter THEN depth + 1 ELSE depth

\* handleMessage, any other message: addContent is called on the message itself.
AddContentTop ==
  /\ pc = "decoded"
  /\ ~isMultipart(ParseMediaType(msg.top.ct).mediaType)
  /\ Returned(addContent(email, msg.top, Reader(msg.top.body)), "walked")
  /\ walked' = Append(walked, [part |-> msg.top, depth |-> depth])
  /\ UNCHANGED <<msg, left, out>>

\* multipart.Reader.NextPart: a part declared quoted-printable (in any letter case)
\* comes with that header field removed and its body decoded as it is read.
NextPartHeader(p) == IF ToLower(p.cte) = QuotedPrintable THEN [p EXCEPT !.cte = <<>>] ELSE p

NextPartBody(p) ==
  IF ToLower(p.cte) = QuotedPrintable THEN QPReader(Reader(p.body)) ELSE Reader(p.body)

\* The parts the input may deliver next.
Offered ==
  IF left = 0 THEN {}
  ELSE BasicParts
       \cup (IF depth < MaxDepth THEN {Container} ELSE {})
       \cup (IF Len(walked) < MaxFreeAt THEN FreeParts ELSE {})

\* handleMultipart, one turn of the loop with a part: addContent is called on it;
\* a multipart part makes addContent call handleMultipart on its body.
NextPart(p) ==
  /\ pc = "walk"
  /\ p \in Offered
  /\ Returned(addContent(email, NextPartHeader(p), NextPartBody(p)), "walk")
  /\ left' = IF p \in BasicParts \cup {Container} THEN left - 1 ELSE 0
  /\ walked' = Append(walked, [part |-> p, depth |-> depth])
  /\ UNCHANGED <<msg, out>>

\* handleMultipart, io.EOF from NextPart: the loop ends and the call returns nil,
\* to addContent (which returns nil to the enclosing loop) or to handleMessage.
NextPartEOF ==
  /\ pc = "walk"
  /\ depth' = depth - 1
  /\ pc' = IF depth = 1 THEN "walked" ELSE "walk"
  /\ UNCHANGED <<msg, left, email, err, walked, out>>

\* handleMultipart, any other error from NextPart: it is returned up the stack.
NextPartError ==
  /\ pc = "walk"
  /\ pc' = "failed"
  /\ err' = Error("multipart", <<>>)
  /\ UNCHANGED <<msg, left, email, depth, walked, out>>

\* write: the files writeResult leaves behind for the attachments it is given.
Files(email_) == email_.Html \o email_.Attachments

\* handleMessage's last statement: writeResult is given the finished record.
WriteResult ==
  /\ pc = "walked"
  /\ out' = <<[email |-> email, files |-> Files(email)]>>
  /\ pc' = "written"
  /\ UNCHANGED <<msg, left, email, depth, err, walked>>

Next ==
  \/ ParseMessage
  \/ StartMultipart
  \/ AddContentTop
  \/ \E p \in BasicParts \cup {Container} \cup FreeParts : NextPart(p)
  \/ NextPartEOF
  \/ NextPartError
  \/ WriteResult

Spec == Init /\ [][Next]_vars

\* ---------------------------------------------------------------- claims

Last(s) == s[Len(s)]

Min(S) == CHOOSE x \in S : \A y \in S : x <= y
Max(S) == CHOOSE x \in S : \A y \in S : x >= y

\* This step is a call of addContent, on the entity Latest.
Called == Len(walked') = Len(walked) + 1
Latest == Last(walked').part

MediaTypeOf(p) == ParseMediaType(p.ct).mediaType
IsPlain(w) == isPlainText(MediaTypeOf(w.part))
IsHtml(w) == isHtml(MediaTypeOf(w.part))
IsContainer(w) == isMultipart(MediaTypeOf(w.part))

\* The body of a walked entity as addContent reads it: quoted-printable is undone
\* by NextPart for a part, by addContent itself for the message.
ReadOf(w) ==
  IF w.depth = 0
  THEN (IF w.part.cte = QuotedPrintable THEN QPDecode(w.part.body) ELSE Reader(w.part.body))
  ELSE NextPartBody(w.part)

IsPlainNonEmpty(w) == IsPlain(w) /\ ReadOf(w).data # <<>>

\* The index of the first walked entity that passes the test, 0 when none does.
First(Test(_)) ==
  LET hits == {i \in 1..Len(walked) : Test(walked[i])}
  IN IF hits = {} THEN 0 ELSE Min(hits)

\* Every line feed rendered as <br> and a line feed.
RECURSIVE Rendered(_)
Rendered(d) ==
  IF d = <<>> THEN <<>>
  ELSE Rendered(SubSeq(d, 1, Len(d) - 1)) \o (IF Last(d) = LF THEN Br ELSE <<Last(d)>>)

\* The filename a Content-Disposition value yields, by position: the bytes between
\* the first "=" and the next "=" (or the end) of what stands between the first ";"
\* and the next ";" (or the end), without the double quotes around them.
ExpectedFilename(v) ==
  LET semis == {i \in 1..Len(v) : v[i] = SEMI}
  IN IF semis = {} THEN <<>>
     ELSE LET later == {i \in semis : i > Min(semis)}
              seg == SubSeq(v, Min(semis) + 1, IF later = {} THEN Len(v) ELSE Min(later) - 1)
              eqs == {i \in 1..Len(seg) : seg[i] = EQ}
          IN IF eqs = {} THEN <<>>
             ELSE LET after == {i \in eqs : i > Min(eqs)}
                      val == SubSeq(seg, Min(eqs) + 1,
                                    IF after = {} THEN Len(seg) ELSE Min(after) - 1)
                      keep == {i \in 1..Len(val) : val[i] # QUOTE}
                  IN IF keep = {} THEN <<>> ELSE SubSeq(val, Min(keep), Max(keep))

\* The name under which a text or HTML part is attached.
NameFor(p) ==
  IF ExpectedFilename(p.cd) # <<>> THEN ExpectedFilename(p.cd)
  ELSE IF isPlainText(MediaTypeOf(p)) THEN AttachmentTxt
  ELSE AttachmentHtml

\* The entity finds the slot of its type taken.
SlotTaken(p) ==
  \/ isPlainText(MediaTypeOf(p)) /\ email.Text # <<>>
  \/ isHtml(MediaTypeOf(p)) /\ email.Html # <<>>

\* This step appends exactly one attachment.
Appended ==
  /\ Len(email'.Attachments) = Len(email.Attachments) + 1
  /\ SubSeq(email'.Attachments, 1, Len(email.Attachments)) = email.Attachments

\* C1 as stated: a text/plain part processed when the text is already non-empty,
\* and a text/html part processed when the html is already set, is dropped: the
\* text, the html and the attachments are all left unchanged.
C1_Dropped ==
  [][Called /\ SlotTaken(Latest) =>
       /\ email'.Text = email.Text
       /\ email'.Html = email.Html
       /\ email'.Attachments = email.Attachments]_vars

\* C1 as amended: such a part leaves the text and the html unchanged and is handled
\* as an attachment: unless its body fails to decode (quoted-printable or base64),
\* which aborts the conversion, exactly one attachment is appended for it, named by
\* its Content-Disposition or else attachment.txt / attachment.html.
C1_Attached ==
  [][Called /\ SlotTaken(Latest) =>
       /\ email'.Text = email.Text
       /\ email'.Html = email.Html
       /\ \/ /\ err' = Nil
             /\ Appended
             /\ Last(email'.Attachments).Filename = NameFor(Latest)
          \/ /\ err'.kind \in {"quotedprintable", "base64"}
             /\ email'.Attachments = email.Attachments]_vars

\* A second text/plain part has been stored as attachment.txt.
C1_Witness ==
  /\ err = Nil
  /\ \E i \in 1..Len(walked) : \E j \in 1..Len(walked) :
       i < j /\ IsPlainNonEmpty(walked[i]) /\ IsPlain(walked[j])
  /\ \E k \in 1..Len(email.Attachments) : email.Attachments[k].Filename = AttachmentTxt

\* C2 as stated: after a successful conversion the text is the rendering of the
\* first text/plain part in document order and the html holds the first text/html
\* part under the name email-content.html, at whatever depth they stand.
C2_FirstWins ==
  pc = "written" =>
    /\ email.Text = IF First(IsPlain) = 0 THEN <<>>
                    ELSE Rendered(ReadOf(walked[First(IsPlain)]).data)
    /\ email.Html = IF First(IsHtml) = 0 THEN <<>>
                    ELSE <<Attachment(ReadOf(walked[First(IsHtml)]).data, EmailContentHtml)>>

\* C2 as amended: after a successful conversion the text is the rendering of the
\* first text/plain part in document order whose body is not empty (an empty
\* text/plain part leaves the slot open for a later one), empty when there is none,
\* and the html holds the first text/html part in document order under the name
\* email-content.html, at whatever depth they stand; no later part has changed
\* either.
C2_FirstNonEmptyWins ==
  pc = "written" =>
    /\ email.Text = IF First(IsPlainNonEmpty) = 0 THEN <<>>
                    ELSE Rendered(ReadOf(walked[First(IsPlainNonEmpty)]).data)
    /\ email.Html = IF First(IsHtml) = 0 THEN <<>>
                    ELSE <<Attachment(ReadOf(walked[First(IsHtml)]).data, EmailContentHtml)>>

\* A conversion has ended with two different text/plain bodies at different
\* depths, and with an HTML part.
C2_Witness ==
  /\ pc = "written"
  /\ email.Html # <<>>
  /\ \E i \in 1..Len(walked) : \E j \in 1..Len(walked) :
       /\ i < j
       /\ IsPlainNonEmpty(walked[i])
       /\ IsPlainNonEmpty(walked[j])
       /\ walked[i].depth # walked[j].depth
       /\ walked[i].part.body # walked[j].part.body
       /\ email.Text = Rendered(walked[i].part.body)

\* The walked entity at index i is stored as an attachment: it is no container and
\* does not fill the text or the html slot.
Attaches(i) ==
  /\ ~IsContainer(walked[i])
  /\ IsPlain(walked[i]) => \E j \in 1..(i - 1) : IsPlainNonEmpty(walked[j])
  /\ IsHtml(walked[i]) => \E j \in 1..(i - 1) : IsHtml(walked[j])

\* The attachment made of a walked entity.
AttachmentOf(w) ==
  Attachment(IF w.part.cte = Base64 THEN Base64Decode(ReadOf(w).data).data
             ELSE ReadOf(w).data,
             IF ExpectedFilename(w.part.cd) # <<>> THEN ExpectedFilename(w.part.cd)
             ELSE NameFor(w.part))

\* The attachments of the first n walked entities, in walk order.
RECURSIVE AttachmentsUpTo(_)
AttachmentsUpTo(n) ==
  IF n = 0 THEN <<>>
  ELSE AttachmentsUpTo(n - 1) \o (IF Attaches(n) THEN <<AttachmentOf(walked[n])>> ELSE <<>>)

\* C3: after a successful conversion the attachments are, in the depth-first
\* document order in which the parts were met, exactly one per part that is stored
\* as an attachment: a part met earlier has the smaller index, no such part is
\* missing or doubled, and the parts of a container stand between those of its
\* siblings.
C3_DocumentOrder ==
  pc = "written" => email.Attachments = AttachmentsUpTo(Len(walked))

\* An attachment, then a container with an attachment of another name, then an
\* attachment after the container.
C3_Witness ==
  /\ pc = "written"
  /\ Len(walked) = 4
  /\ ~IsContainer(walked[1])
  /\ IsContainer(walked[2])
  /\ walked[3].depth = walked[2].depth + 1
  /\ walked[4].depth = walked[2].depth
  /\ Len(email.Attachments) = 3
  /\ email.Attachments[1].Filename # email.Attachments[2].Filename
  /\ email.Attachments[2].Filename # email.Attachments[3].Filename

\* C4: conversion is all or nothing.  Once an error is returned nothing more
\* happens: no later part is processed and the error stays the one returned; the
\* step that fails changes nothing in the record and writes nothing; and
\* writeResult is given the record only when every part has been processed
\* without error and every handleMultipart has returned.
C4_AllOrNothing ==
  [][/\ err # Nil => UNCHANGED vars
     /\ err' # Nil => pc' = "failed" /\ out' = <<>> /\ email' = email
     /\ pc' = "failed" => err' # Nil
     /\ out' # <<>> => /\ err' = Nil
                       /\ pc' = "written"
                       /\ depth' = 0
                       /\ out'[1].email = email']_vars

\* A part has failed after earlier parts had been stored.
C4_Witness ==
  /\ pc = "failed"
  /\ Len(walked) >= 2
  /\ email.Attachments # <<>>
  /\ email.Text # <<>>
  /\ out = <<>>

\* Every header value of the message.
AllValues(m) ==
  UNION { {m.Header[k][i] : i \in 1..Len(m.Header[k])} : k \in DOMAIN m.Header }

\* An encoded-word that decodes and names a charset mime does not know.
Unsupported(v) ==
  \E i \in 1..Len(v) :
    v[i].kind = "word" /\ v[i].valid /\ ToLower(v[i].charset) \notin {Utf8, Iso88591, UsAsciiName}

\* A value without any encoded-word syntax, or with UTF-8 encoded-words that decode.
FullyDecodable(v) ==
  \A i \in 1..Len(v) :
    \/ v[i].kind = "text" /\ ~HasPrefix(v[i].raw, WordStart)
    \/ v[i].kind = "word" /\ v[i].valid /\ ToLower(v[i].charset) = Utf8

\* A value with encoded-word syntax none of which decodes.
Malformed(v) ==
  /\ \E i \in 1..Len(v) : v[i].kind = "word" \/ HasPrefix(v[i].raw, WordStart)
  /\ \A i \in 1..Len(v) : v[i].kind = "word" => ~v[i].valid

\* The text of a fully decodable value.
RECURSIVE Content(_)
Content(v) ==
  IF v = <<>> THEN <<>>
  ELSE (IF Head(v).kind = "word" THEN Head(v).content ELSE Head(v).raw) \o Content(Tail(v))

Nameless(p, d) ==
  /\ ~ParseMediaType(p.ct).err
  /\ ~isPlainText(MediaTypeOf(p))
  /\ ~isHtml(MediaTypeOf(p))
  /\ ~isMultipart(MediaTypeOf(p))
  /\ ~ReadOf([part |-> p, depth |-> d]).err
  /\ ExpectedFilename(p.cd) = <<>>

\* C6 as stated: such a part fails the conversion with the unknown-attachment-type
\* error, no attachment is appended for it and nothing is written.
C6_UnknownType ==
  [][Called /\ Nameless(Latest, depth) =>
       /\ err'.kind = "filename"
       /\ pc' = "failed"
       /\ email' = email
       /\ out' = <<>>]_vars

\* C6 as amended: such a part fails the conversion, no attachment is appended for
\* it and nothing is written; the error is the unknown-attachment-type error,
\* except that a part declaring base64 whose body is not valid base64 fails with
\* the base64 error, which is raised before the filename is looked at.
C6_UnknownTypeOrBase64 ==
  [][Called /\ Nameless(Latest, depth) =>
       /\ err'.kind = IF Latest.cte = Base64 /\ Base64Decode(Latest.body).err
                      THEN "base64" ELSE "filename"
       /\ pc' = "failed"
       /\ email' = email
       /\ out' = <<>>]_vars

\* A part of unknown type without a filename has failed the conversion after an
\* attachment had been stored.
C6_Witness ==
  /\ pc = "failed"
  /\ err.kind = "filename"
  /\ walked # <<>>
  /\ Nameless(Last(walked).part, Last(walked).depth)
  /\ Len(email.Attachments) = 1

\* C7: for a message that is one entity of unknown type, the attachment is named
\* exactly by the second "="-segment of the second ";"-segment of its
\* Content-Disposition, double quotes removed; when there is no such segment, or
\* nothing is left of it, the conversion fails on the unknown type instead; and
\* attachment; filename="report.pdf" names the attachment report.pdf.
C7_Filename ==
  /\ ExpectedFilename(CdReport) = ReportPdf
  /\ /\ Len(walked) = 1
     /\ walked[1].depth = 0
     /\ walked[1].part.ct = CtPdf
     /\ walked[1].part.cte = <<>>
     => /\ getFilename(walked[1].part.cd) = ExpectedFilename(walked[1].part.cd)
        /\ IF ExpectedFilename(walked[1].part.cd) = <<>>
           THEN err.kind = "filename" /\ email.Attachments = <<>>
           ELSE /\ err = Nil
                /\ email.Attachments =
                     <<Attachment(walked[1].part.body, ExpectedFilename(walked[1].part.cd))>>

\* The attachment of attachment; filename="report.pdf" has been stored.
C7_Witness ==
  /\ walked # <<>>
  /\ walked[1].depth = 0
  /\ walked[1].part.cd = CdReport
  /\ Len(email.Attachments) = 1
  /\ email.Attachments[1].Filename = ReportPdf

\* C8 as stated: a text/plain or text/html part is never base64-decoded and never
\* fails the conversion with a base64 error, wherever it stands and whatever the
\* record already holds.
C8_NeverDecoded ==
  [][Called /\ Latest.cte = Base64
             /\ (isPlainText(MediaTypeOf(Latest)) \/ isHtml(MediaTypeOf(Latest))) =>
       /\ err'.kind # "base64"
       /\ Len(email'.Attachments) > Len(email.Attachments) =>
            Last(email'.Attachments).Data = Latest.body]_vars

\* C8 as amended: a text/plain or text/html part declaring base64 is stored
\* undecoded when it fills the text or the html slot; when it finds its slot taken
\* it is handled as an attachment and base64-decoded like one, failing the
\* conversion when its body is not valid base64.
C8_DecodedOnlyAsAttachment ==
  [][Called /\ Latest.cte = Base64
             /\ (isPlainText(MediaTypeOf(Latest)) \/ isHtml(MediaTypeOf(Latest))) =>
       IF SlotTaken(Latest)
       THEN IF Base64Decode(Latest.body).err
            THEN err'.kind = "base64" /\ email' = email
            ELSE /\ err' = Nil
                 /\ Appended
                 /\ Last(email'.Attachments).Data = Base64Decode(Latest.body).data
       ELSE /\ err' = Nil
            /\ email'.Attachments = email.Attachments
            /\ IF isPlainText(MediaTypeOf(Latest))
               THEN email'.Text = Rendered(Latest.body) /\ email'.Html = email.Html
               ELSE /\ email'.Html = <<Attachment(Latest.body, EmailContentHtml)>>
                    /\ email'.Text = email.Text]_vars

\* A second text/plain part, declared base64, has been stored decoded.
C8_Witness ==
  /\ err = Nil
  /\ Len(walked) = 2
  /\ IsPlainNonEmpty(walked[1])
  /\ IsPlain(walked[2])
  /\ walked[2].part.cte = Base64
  /\ walked[2].part.body = BodyBase64
  /\ Len(email.Attachments) = 1
  /\ email.Attachments[1].Data = Base64Decode(BodyBase64).data
  /\ email.Attachments[1].Data # BodyBase64

\* What addContent makes of entity p at depth d in the current state.
Outcome(p, d) ==
  IF d = 0 THEN addContent(email, p, Reader(p.body))
  ELSE addContent(email, NextPartHeader(p), NextPartBody(p))

\* C9: the Content-Transfer-Encoding is matched after lower-casing: an entity is
\* handled exactly as it would be with its header value in lower case.
C9_CaseInsensitive ==
  [][Called =>
       /\ email' = Outcome([Latest EXCEPT !.cte = ToLower(@)], depth).email
       /\ err' = Outcome([Latest EXCEPT !.cte = ToLower(@)], depth).err]_vars

\* C10: with another parameter before filename= the Content-Disposition yields no
\* name: the entity is handled exactly as it would be without Content-Disposition.
C10_NoName ==
  [][Called /\ Latest.cd = CdSized =>
       /\ email' = Outcome([Latest EXCEPT !.cd = <<>>], depth).email
       /\ err' = Outcome([Latest EXCEPT !.cd = <<>>], depth).err]_vars

====
